---- MODULE Spec2Model ----
(***************************************************************************)
(* Model of task_queue.py: the priority queue of place requests, the one   *)
(* worker greenlet that drains it against the Overpass API and the chunk   *)
(* cache, and the per-connection handler that relays a job's messages to   *)
(* its client with an "ack" after every message.                           *)
(***************************************************************************)
EXTENDS Integers, Sequences, FiniteSets, TLC

(* ------------------------------ bounds --------------------------------- *)
NConn     == 4      \* connections (one request each) that the server accepts
NSessions == 2      \* of these, the connections that Spec lets connect
NFiles    == 1      \* distinct chunk filenames (cache keys)
NJobFiles == 2      \* distinct chunk filenames in SpecJob, the model of one job
MaxChunks == 2      \* chunks per place request
MaxArea   == 2      \* areas are 1..MaxArea
MaxWait   == 1      \* seconds until the next slot, 0..MaxWait

(* --------------------------- program constants ------------------------- *)
NWorkers  == 1      \* main() spawns process_queue_loop once

Conn    == 1..NConn
Sessions == {c \in Conn : c <= NSessions}
Files   == 1..NFiles
JobFiles == 1..NJobFiles
Areas   == 1..MaxArea
(* mutant: main() spawns the worker loop twice *)
TwoWorkers == 1..2

Workers == 1..NWorkers

(* msg['place']['area'] as it arrives: a number (or a numeric string), a   *)
(* string that is no number, null, or no such key                           *)
NumberAreas == [kind : {"number"}, val : Areas]
RawAreas    == NumberAreas \cup [kind : {"text", "null", "absent"}]

ChunkSpec  == [oql : BOOLEAN, filename : Files]
ChunkLists == UNION {[1..n -> ChunkSpec] : n \in 0..MaxChunks}

(* the first frame a client sends: undecodable, a ping, or a place request *)
Frames == [type : {"invalid", "ping"}]
            \cup [type : {"place"}, area : NumberAreas, chunks : ChunkLists]

(* the frames of SpecJob: any area value, chunks over JobFiles *)
JobChunkLists ==
    UNION {[1..n -> [oql : BOOLEAN, filename : JobFiles]] : n \in 0..MaxChunks}
JobFrames == [type : {"invalid", "ping"}]
               \cup [type : {"place"}, area : RawAreas, chunks : JobChunkLists]

(* place requests without chunks *)
BareFrames == {f \in Frames : f.type = "place" /\ f.chunks = <<>>}

(* the upstream's answers to get_status *)
StatusResults == [kind : {"OverpassError", "Timeout", "noslots"}]
                   \cup [kind : {"slots"}, secs : 0..MaxWait]

NoFrame == [type |-> "none"]
None    == [type |-> "None"]          \* the sentinel process_queue puts last

VARIABLES
    task_queue,     \* the heap list of the PriorityQueue: <<area, conn>> entries
    item,           \* item[c]: the request of connection c (NoFrame before it)
    send_queue,     \* send_queue[c]: the job's Queue, worker -> handler
    sent,           \* sent[c]: every message ever put on send_queue[c]
    hpc,            \* hpc[c]: where Request.handle of connection c stands
    error,          \* error[c]: the local error flag of Request.handle
    sock,           \* sock[c]: the frames written to the client's socket
    recv,           \* recv[c]: the replies send_msg has read from the socket
    wpc,            \* wpc[w]: where worker w stands in process_queue
    cur,            \* cur[w]: the connection whose item worker w processes
    num,            \* num[w]: index (1-based) of the chunk being processed
    cache,          \* filenames that exist under overpass/
    fetches,        \* fetches[f]: run_query calls made for filename f
    jobst,          \* jobst[c]: none / queued / running / completed / failed / aborted
    jstat,          \* jstat[c]: get_status calls made for job c
    jfetch,         \* jfetch[c]: run_query calls made for job c
    mails,          \* mails[c]: send_mail calls made for job c
    cache0,         \* cache0[c]: the cache when job c was dequeued
    cache1,         \* cache1[c]: the cache when job c ended
    order           \* the connections in the order the worker dequeued them

vars == <<task_queue, item, send_queue, sent, hpc, error, sock, recv, wpc,
          cur, num, cache, fetches, jobst, jstat, jfetch, mails, cache0,
          cache1, order>>

handlerVars == <<hpc, error, sock, recv>>
workerVars  == <<wpc, cur, num>>
histVars    == <<fetches, jstat, jfetch, mails, cache0, cache1, order>>

(* ------------------------------ messages ------------------------------- *)
(* mutant: the chunks are numbered from 1 (enumerate(..., 1)) *)
ChunkMsgFromOne(type, n, c) ==
    [type |-> type, num |-> n, filename |-> item[c].chunks[n].filename]

ChunkMsg(type, n, c) ==
    [type |-> type, num |-> n - 1, filename |-> item[c].chunks[n].filename]
StatusMsg(secs) == [type |-> "status", wait |-> secs]
ErrorMsg(text)  == [type |-> "error", error |-> text]
TypeMsg(type)   == [type |-> type]

(* to_client / send_queue.put: gevent's Queue() has no maxsize, so put     *)
(* never waits for the consumer                                            *)
(* mutant: the Queue is bounded (Queue(maxsize=1)), a put waits while it is full *)
CanPutBounded(c) == Len(send_queue[c]) < 1

CanPut(c) == TRUE

Put(q, c, msgs) == [q EXCEPT ![c] = @ \o msgs]

(* --------------------- the PriorityQueue's heap ------------------------ *)
(* Entries are the tuples (area, item) of new_place_request.  Python       *)
(* compares tuples element by element: with different areas the areas      *)
(* decide; with equal areas the second elements, two dicts, are compared    *)
(* with <, which raises TypeError.                                          *)
Entry(c, area) == [area |-> area, id |-> c]

(* mutant: the comparison is turned around (a max-heap) *)
TupleGt(x, y) ==
    IF x.area # y.area
        THEN (IF x.area > y.area THEN "lt" ELSE "ge")
        ELSE "TypeError"

TupleLt(x, y) ==
    IF x.area # y.area
        THEN (IF x.area < y.area THEN "lt" ELSE "ge")
        ELSE "TypeError"

Swap(h, i, j) == [h EXCEPT ![i] = h[j], ![j] = h[i]]

(* heapq's siftdown: move h[pos] up towards startpos while it is smaller   *)
(* than its parent; the elements are swapped in place, so a comparison     *)
(* that raises leaves the new item where the comparison failed             *)
RECURSIVE SiftDown(_, _, _)
SiftDown(h, startpos, pos) ==
    IF pos > startpos
        THEN LET parentpos == pos \div 2
                 cmp == TupleLt(h[pos], h[parentpos])
             IN  CASE cmp = "TypeError" -> [heap |-> h, raised |-> TRUE]
                   [] cmp = "lt" -> SiftDown(Swap(h, pos, parentpos), startpos, parentpos)
                   [] OTHER -> [heap |-> h, raised |-> FALSE]
        ELSE [heap |-> h, raised |-> FALSE]

(* heapq's siftup: move the smaller child up until a leaf is reached, then *)
(* sift the displaced item down from there                                  *)
RECURSIVE SiftUpFrom(_, _, _)
SiftUpFrom(h, startpos, pos) ==
    IF pos <= Len(h) \div 2
        THEN LET left == 2 * pos
                 cmp  == IF left + 1 <= Len(h)
                             THEN TupleLt(h[left], h[left + 1])
                             ELSE "lt"
                 childpos == IF cmp = "lt" THEN left ELSE left + 1
             IN  IF cmp = "TypeError"
                     THEN [heap |-> h, raised |-> TRUE]
                     ELSE SiftUpFrom(Swap(h, pos, childpos), startpos, childpos)
        ELSE SiftDown(h, startpos, pos)

SiftUp(h, pos) == SiftUpFrom(h, pos, pos)

(* PriorityQueue._put: heapq.heappush(self.queue, item) *)
HeapPush(h, e) == SiftDown(Append(h, e), 1, Len(h) + 1)

(* PriorityQueue._get: heapq.heappop(self.queue); when the sift raises,    *)
(* the item that was at the root has left the list and is returned to      *)
(* nobody                                                                   *)
HeapPop(h) ==
    LET lastelt == h[Len(h)]
        rest    == SubSeq(h, 1, Len(h) - 1)
    IN  IF rest = <<>>
            THEN [heap |-> rest, raised |-> FALSE, item |-> lastelt]
            ELSE LET r == SiftUp([rest EXCEPT ![1] = lastelt], 1)
                 IN  [heap |-> r.heap, raised |-> r.raised, item |-> rest[1]]

(* ------------------------------- Init ---------------------------------- *)
(* the state after main() has started, the cache holding some of the files F *)
InitState(F) ==
    /\ task_queue = <<>>
    /\ item = [c \in Conn |-> NoFrame]
    /\ send_queue = [c \in Conn |-> <<>>]
    /\ sent = [c \in Conn |-> <<>>]
    /\ hpc = [c \in Conn |-> "new"]
    /\ error = [c \in Conn |-> FALSE]
    /\ sock = [c \in Conn |-> <<>>]
    /\ recv = [c \in Conn |-> <<>>]
    /\ wpc = [w \in Workers |-> "get"]
    /\ cur = [w \in Workers |-> 0]
    /\ num = [w \in Workers |-> 0]
    /\ cache \in SUBSET F
    /\ fetches = [f \in F |-> 0]
    /\ jobst = [c \in Conn |-> "none"]
    /\ jstat = [c \in Conn |-> 0]
    /\ jfetch = [c \in Conn |-> 0]
    /\ mails = [c \in Conn |-> 0]
    /\ cache0 = [c \in Conn |-> {}]
    /\ cache1 = [c \in Conn |-> {}]
    /\ order = <<>>

Init == InitState(Files)

(* --------------------------- Request.handle ---------------------------- *)
(* Request.send_msg, the write half: netstring.write on the socket *)
Write(c, msg) == sock' = [sock EXCEPT ![c] = Append(@, msg)]

(* the server accepts connections one after the other: connection c is    *)
(* the c-th that handle_request is spawned for                              *)
Accept(c) == hpc[c] = "new" /\ (IF c = 1 THEN TRUE ELSE hpc[c - 1] # "new")

(* mutant: the error is sent with send_msg, which waits for an ack *)
HandleInvalidAcked(c) ==
    /\ Accept(c)
    /\ item' = [item EXCEPT ![c] = [type |-> "invalid"]]
    /\ Write(c, ErrorMsg("invalid JSON"))
    /\ hpc' = [hpc EXCEPT ![c] = "ack_done"]
    /\ UNCHANGED <<task_queue, send_queue, sent, error, recv, cache, jobst>>
    /\ UNCHANGED <<workerVars, histVars>>

(* handle, first frame not decodable: reply_and_close with an error *)
HandleInvalid(c) ==
    /\ Accept(c)
    /\ item' = [item EXCEPT ![c] = [type |-> "invalid"]]
    /\ Write(c, ErrorMsg("invalid JSON"))
    /\ hpc' = [hpc EXCEPT ![c] = "closed"]
    /\ UNCHANGED <<task_queue, send_queue, sent, error, recv, cache, jobst>>
    /\ UNCHANGED <<workerVars, histVars>>

(* mutant: the pong is sent with send_msg, which waits for an ack *)
HandlePingAcked(c) ==
    /\ Accept(c)
    /\ item' = [item EXCEPT ![c] = [type |-> "ping"]]
    /\ Write(c, TypeMsg("pong"))
    /\ hpc' = [hpc EXCEPT ![c] = "ack_done"]
    /\ UNCHANGED <<task_queue, send_queue, sent, error, recv, cache, jobst>>
    /\ UNCHANGED <<workerVars, histVars>>

(* handle, first frame is a ping: reply_and_close with a pong *)
HandlePing(c) ==
    /\ Accept(c)
    /\ item' = [item EXCEPT ![c] = [type |-> "ping"]]
    /\ Write(c, TypeMsg("pong"))
    /\ hpc' = [hpc EXCEPT ![c] = "closed"]
    /\ UNCHANGED <<task_queue, send_queue, sent, error, recv, cache, jobst>>
    /\ UNCHANGED <<workerVars, histVars>>

(* new_place_request, lines 120-123: float(msg['place']['area']), where    *)
(* only ValueError is caught.  A number parses to itself; float('abc')      *)
(* raises ValueError and the area is 0; float(None) raises TypeError and a  *)
(* missing key raises KeyError, and these leave new_place_request.          *)
ParseArea(raw) ==
    CASE raw.kind = "number" -> [raised |-> FALSE, area |-> raw.val]
      [] raw.kind = "text"   -> [raised |-> FALSE, area |-> 0]
      [] OTHER               -> [raised |-> TRUE, area |-> 0]

(* handle -> new_place_request: a fresh Queue, task_queue.put((area, item)) *)
(* and then send_msg({'type': 'connected'}).  An exception raised by the    *)
(* parse or by the put ends the handler before anything is written.         *)
NewPlaceRequest(c, msg) ==
    /\ Accept(c)
    /\ msg.type = "place"
    /\ item' = [item EXCEPT ![c] = msg]
    /\ LET a == ParseArea(msg.area)
           r == HeapPush(task_queue, Entry(c, a.area))
       IN  IF a.raised
               THEN /\ hpc' = [hpc EXCEPT ![c] = "crashed"]
                    /\ UNCHANGED <<task_queue, jobst, sock>>
               ELSE /\ task_queue' = r.heap
                    /\ jobst' = [jobst EXCEPT ![c] = "queued"]
                    /\ IF r.raised
                           THEN /\ hpc' = [hpc EXCEPT ![c] = "crashed"]
                                /\ UNCHANGED sock
                           ELSE /\ hpc' = [hpc EXCEPT ![c] = "ack_connected"]
                                /\ Write(c, TypeMsg("connected"))
    /\ UNCHANGED <<send_queue, sent, error, recv, cache>>
    /\ UNCHANGED <<workerVars, histVars>>

(* mutant: the relay loop does not mark the error flag *)
ClientAckNoFlag(c) ==
    /\ hpc[c] \in {"ack_connected", "ack_msg", "ack_done"}
    /\ CASE hpc[c] = "ack_connected" ->
              /\ hpc' = [hpc EXCEPT ![c] = "get"]
              /\ error' = [error EXCEPT ![c] = FALSE]
         [] hpc[c] = "ack_msg" ->
              /\ hpc' = [hpc EXCEPT ![c] = "get"]
              /\ UNCHANGED error
         [] hpc[c] = "ack_done" ->
              /\ hpc' = [hpc EXCEPT ![c] = "closed"]
              /\ UNCHANGED error
    /\ recv' = [recv EXCEPT ![c] = Append(@, "ack")]
    /\ UNCHANGED <<task_queue, item, send_queue, sent, sock, cache, jobst>>
    /\ UNCHANGED <<workerVars, histVars>>

(* send_msg, the read half: the client answers 'ack' *)
ClientAck(c) ==
    /\ hpc[c] \in {"ack_connected", "ack_msg", "ack_done"}
    /\ CASE hpc[c] = "ack_connected" ->
              /\ hpc' = [hpc EXCEPT ![c] = "get"]
              /\ error' = [error EXCEPT ![c] = FALSE]
         [] hpc[c] = "ack_msg" ->
              /\ hpc' = [hpc EXCEPT ![c] = "get"]
              /\ error' = [error EXCEPT ![c] =
                              @ \/ sock[c][Len(sock[c])].type = "error"]
         [] hpc[c] = "ack_done" ->
              /\ hpc' = [hpc EXCEPT ![c] = "closed"]
              /\ UNCHANGED error
    /\ recv' = [recv EXCEPT ![c] = Append(@, "ack")]
    /\ UNCHANGED <<task_queue, item, send_queue, sent, sock, cache, jobst>>
    /\ UNCHANGED <<workerVars, histVars>>

(* mutant: the assert is not there (python -O), any reply counts as an ack *)
ClientBadAckIgnored(c) ==
    /\ hpc[c] \in {"ack_connected", "ack_msg", "ack_done"}
    /\ hpc' = [hpc EXCEPT ![c] = IF hpc[c] = "ack_done" THEN "closed" ELSE "get"]
    /\ recv' = [recv EXCEPT ![c] = Append(@, "other")]
    /\ UNCHANGED <<task_queue, item, send_queue, sent, error, sock, cache, jobst>>
    /\ UNCHANGED <<workerVars, histVars>>

(* send_msg, the read half: the client answers something else (or its end  *)
(* of the socket is closed): assert msg == 'ack' fails and the handler ends *)
ClientBadAck(c) ==
    /\ hpc[c] \in {"ack_connected", "ack_msg", "ack_done"}
    /\ hpc' = [hpc EXCEPT ![c] = "crashed"]
    /\ recv' = [recv EXCEPT ![c] = Append(@, "other")]
    /\ UNCHANGED <<task_queue, item, send_queue, sent, error, sock, cache, jobst>>
    /\ UNCHANGED <<workerVars, histVars>>

(* mutant: relayed messages are written with check_ack=False *)
RelayNoAck(c) ==
    /\ hpc[c] = "get"
    /\ send_queue[c] # <<>>
    /\ LET to_send == Head(send_queue[c])
       IN  /\ send_queue' = [send_queue EXCEPT ![c] = Tail(@)]
           /\ IF to_send # None
                  THEN /\ UNCHANGED hpc
                       /\ Write(c, to_send)
                  ELSE IF error[c]
                           THEN /\ hpc' = [hpc EXCEPT ![c] = "closed"]
                                /\ UNCHANGED sock
                           ELSE /\ hpc' = [hpc EXCEPT ![c] = "ack_done"]
                                /\ Write(c, TypeMsg("done"))
    /\ UNCHANGED <<task_queue, item, sent, error, recv, cache, jobst>>
    /\ UNCHANGED <<workerVars, histVars>>

(* mutant: 'done' is sent with check_ack=False and the socket closed *)
RelayDoneUnacked(c) ==
    /\ hpc[c] = "get"
    /\ send_queue[c] # <<>>
    /\ LET to_send == Head(send_queue[c])
       IN  /\ send_queue' = [send_queue EXCEPT ![c] = Tail(@)]
           /\ IF to_send # None
                  THEN /\ hpc' = [hpc EXCEPT ![c] = "ack_msg"]
                       /\ Write(c, to_send)
                  ELSE /\ hpc' = [hpc EXCEPT ![c] = "closed"]
                       /\ IF error[c] THEN UNCHANGED sock
                                      ELSE Write(c, TypeMsg("done"))
    /\ UNCHANGED <<task_queue, item, sent, error, recv, cache, jobst>>
    /\ UNCHANGED <<workerVars, histVars>>

(* handle, the relay loop: to_send = self.send_queue.get(); a message is    *)
(* written (send_msg) and its ack awaited; the sentinel ends the loop, and  *)
(* 'done' is sent if no error was relayed                                   *)
Relay(c) ==
    /\ hpc[c] = "get"
    /\ send_queue[c] # <<>>
    /\ LET to_send == Head(send_queue[c])
       IN  /\ send_queue' = [send_queue EXCEPT ![c] = Tail(@)]
           /\ IF to_send # None
                  THEN /\ hpc' = [hpc EXCEPT ![c] = "ack_msg"]
                       /\ Write(c, to_send)
                  ELSE IF error[c]
                           THEN /\ hpc' = [hpc EXCEPT ![c] = "closed"]
                                /\ UNCHANGED sock
                           ELSE /\ hpc' = [hpc EXCEPT ![c] = "ack_done"]
                                /\ Write(c, TypeMsg("done"))
    /\ UNCHANGED <<task_queue, item, sent, error, recv, cache, jobst>>
    /\ UNCHANGED <<workerVars, histVars>>

(* the same step when the client has closed the connection: the write      *)
(* raises BrokenPipeError, which the relay loop catches (socket closed);   *)
(* nothing catches it when it is 'done' that is being sent                  *)
RelayBrokenPipe(c) ==
    /\ hpc[c] = "get"
    /\ send_queue[c] # <<>>
    /\ LET to_send == Head(send_queue[c])
       IN  /\ send_queue' = [send_queue EXCEPT ![c] = Tail(@)]
           /\ hpc' = [hpc EXCEPT ![c] =
                         IF to_send # None \/ error[c] THEN "closed" ELSE "crashed"]
    /\ UNCHANGED <<task_queue, item, sent, error, sock, recv, cache, jobst>>
    /\ UNCHANGED <<workerVars, histVars>>

(* ---------------------------- process_queue ---------------------------- *)
Chunks(c)   == item[c].chunks
Filename(w) == Chunks(cur[w])[num[w]].filename

(* mutant: the existence check is lost, every chunk is fetched *)
ExistsNever(f) == FALSE

(* os.path.exists(filename) *)
Exists(f) == f \in cache

Inc(fn, x) == [fn EXCEPT ![x] = @ + 1]

(* the job of worker w ends (return or fall off the end of process_queue)  *)
(* and process_queue_loop calls process_queue again                        *)
EndJob(w, st) ==
    /\ jobst' = [jobst EXCEPT ![cur[w]] = st]
    /\ cache1' = [cache1 EXCEPT ![cur[w]] = cache]
    /\ wpc' = [wpc EXCEPT ![w] = "get"]

(* area, item = task_queue.get(): blocks while the queue is empty; a       *)
(* TypeError raised by heappop leaves process_queue_loop and ends the      *)
(* worker greenlet                                                          *)
Dequeue(w) ==
    /\ wpc[w] = "get"
    /\ task_queue # <<>>
    /\ LET r == HeapPop(task_queue)
           c == r.item.id
       IN  /\ task_queue' = r.heap
           /\ IF r.raised
                  THEN /\ wpc' = [wpc EXCEPT ![w] = "dead"]
                       /\ jobst' = [jobst EXCEPT ![c] = "lost"]
                       /\ UNCHANGED <<cur, num, cache0, order>>
                  ELSE /\ wpc' = [wpc EXCEPT ![w] = "loop"]
                       /\ cur' = [cur EXCEPT ![w] = c]
                       /\ num' = [num EXCEPT ![w] = 1]
                       /\ jobst' = [jobst EXCEPT ![c] = "running"]
                       /\ cache0' = [cache0 EXCEPT ![c] = cache]
                       /\ order' = Append(order, c)
    /\ UNCHANGED <<item, send_queue, sent, cache, fetches, jstat, jfetch, mails, cache1>>
    /\ UNCHANGED handlerVars

(* mutant: a chunk without oql goes on to the chunk message *)
SkipChunkReported(w) ==
    /\ wpc[w] = "loop"
    /\ num[w] <= Len(Chunks(cur[w]))
    /\ ~Chunks(cur[w])[num[w]].oql
    /\ send_queue' = Put(send_queue, cur[w], <<ChunkMsg("chunk", num[w], cur[w])>>)
    /\ sent' = Put(sent, cur[w], <<ChunkMsg("chunk", num[w], cur[w])>>)
    /\ num' = [num EXCEPT ![w] = @ + 1]
    /\ UNCHANGED <<task_queue, item, wpc, cur, cache, jobst>>
    /\ UNCHANGED <<handlerVars, histVars>>

(* for num, chunk in enumerate(item['chunks']): if not oql: continue *)
SkipChunk(w) ==
    /\ wpc[w] = "loop"
    /\ num[w] <= Len(Chunks(cur[w]))
    /\ ~Chunks(cur[w])[num[w]].oql
    /\ num' = [num EXCEPT ![w] = @ + 1]
    /\ UNCHANGED <<task_queue, item, send_queue, sent, wpc, cur, cache, jobst>>
    /\ UNCHANGED <<handlerVars, histVars>>

(* mutant: a chunk found in the cache is passed over without a message *)
ReportCachedSilently(w) ==
    /\ wpc[w] = "loop"
    /\ num[w] <= Len(Chunks(cur[w]))
    /\ Chunks(cur[w])[num[w]].oql
    /\ Exists(Filename(w))
    /\ num' = [num EXCEPT ![w] = @ + 1]
    /\ UNCHANGED <<task_queue, item, send_queue, sent, wpc, cur, cache, jobst>>
    /\ UNCHANGED <<handlerVars, histVars>>

(* the file exists: to_client(send_queue, 'chunk', msg) with no fetch *)
ReportCached(w) ==
    /\ wpc[w] = "loop"
    /\ num[w] <= Len(Chunks(cur[w]))
    /\ Chunks(cur[w])[num[w]].oql
    /\ Exists(Filename(w))
    /\ CanPut(cur[w])
    /\ send_queue' = Put(send_queue, cur[w], <<ChunkMsg("chunk", num[w], cur[w])>>)
    /\ sent' = Put(sent, cur[w], <<ChunkMsg("chunk", num[w], cur[w])>>)
    /\ num' = [num EXCEPT ![w] = @ + 1]
    /\ UNCHANGED <<task_queue, item, wpc, cur, cache, jobst>>
    /\ UNCHANGED <<handlerVars, histVars>>

(* the file does not exist: check_free_space, then wait_for_slot calls     *)
(* overpass.get_status()                                                    *)
GetStatus(w) ==
    /\ wpc[w] = "loop"
    /\ num[w] <= Len(Chunks(cur[w]))
    /\ Chunks(cur[w])[num[w]].oql
    /\ ~Exists(Filename(w))
    /\ wpc' = [wpc EXCEPT ![w] = "get_status"]
    /\ jstat' = Inc(jstat, cur[w])
    /\ UNCHANGED <<task_queue, item, send_queue, sent, cur, num, cache, jobst>>
    /\ UNCHANGED <<fetches, jfetch, mails, cache0, cache1, order>>
    /\ UNCHANGED handlerVars

(* wait_for_slot returned True: to_client(send_queue, 'run_query', msg)    *)
(* and overpass.run_query(oql) is called                                    *)
RunQuery(w) ==
    /\ CanPut(cur[w])
    /\ send_queue' = Put(send_queue, cur[w], <<ChunkMsg("run_query", num[w], cur[w])>>)
    /\ sent' = Put(sent, cur[w], <<ChunkMsg("run_query", num[w], cur[w])>>)
    /\ wpc' = [wpc EXCEPT ![w] = "run_query"]
    /\ jfetch' = Inc(jfetch, cur[w])
    /\ fetches' = Inc(fetches, Filename(w))

(* mutant: the failure is reported to the client only, no mail is sent *)
StatusFailsNoMail(w, res) ==
    /\ wpc[w] = "get_status"
    /\ res.kind \in {"OverpassError", "Timeout"}
    /\ send_queue' = Put(send_queue, cur[w], <<ErrorMsg("Can't access overpass API")>>)
    /\ sent' = Put(sent, cur[w], <<ErrorMsg("Can't access overpass API")>>)
    /\ EndJob(w, "failed")
    /\ UNCHANGED <<task_queue, item, cur, num, cache>>
    /\ UNCHANGED <<fetches, jstat, jfetch, mails, cache0, order>>
    /\ UNCHANGED handlerVars

(* mutant: the output file is opened before the slot is waited for *)
StatusFailsLeavesFile(w, res) ==
    /\ wpc[w] = "get_status"
    /\ res.kind \in {"OverpassError", "Timeout"}
    /\ mails' = [mails EXCEPT ![cur[w]] = @ + 1]
    /\ send_queue' = Put(send_queue, cur[w], <<ErrorMsg("Can't access overpass API")>>)
    /\ sent' = Put(sent, cur[w], <<ErrorMsg("Can't access overpass API")>>)
    /\ cache' = cache \cup {Filename(w)}
    /\ jobst' = [jobst EXCEPT ![cur[w]] = "failed"]
    /\ cache1' = [cache1 EXCEPT ![cur[w]] = cache']
    /\ wpc' = [wpc EXCEPT ![w] = "get"]
    /\ UNCHANGED <<task_queue, item, cur, num>>
    /\ UNCHANGED <<fetches, jstat, jfetch, cache0, order>>
    /\ UNCHANGED handlerVars

(* wait_for_slot: get_status raised OverpassError or Timeout: mail, an     *)
(* error message, return False, and process_queue returns                   *)
StatusFails(w, res) ==
    /\ wpc[w] = "get_status"
    /\ res.kind \in {"OverpassError", "Timeout"}
    /\ CanPut(cur[w])
    /\ mails' = Inc(mails, cur[w])
    /\ send_queue' = Put(send_queue, cur[w], <<ErrorMsg("Can't access overpass API")>>)
    /\ sent' = Put(sent, cur[w], <<ErrorMsg("Can't access overpass API")>>)
    /\ EndJob(w, "failed")
    /\ UNCHANGED <<task_queue, item, cur, num, cache>>
    /\ UNCHANGED <<fetches, jstat, jfetch, cache0, order>>
    /\ UNCHANGED handlerVars

(* wait_for_slot: no slots listed, or the first slot is free now *)
StatusFree(w, res) ==
    /\ wpc[w] = "get_status"
    /\ \/ res.kind = "noslots"
       \/ res.kind = "slots" /\ res.secs <= 0
    /\ RunQuery(w)
    /\ UNCHANGED <<task_queue, item, cur, num, cache, jobst>>
    /\ UNCHANGED <<jstat, mails, cache0, cache1, order>>
    /\ UNCHANGED handlerVars

(* wait_for_slot: the first slot is secs away: a status message, sleep(secs) *)
StatusWait(w, res) ==
    /\ wpc[w] = "get_status"
    /\ res.kind = "slots" /\ res.secs > 0
    /\ CanPut(cur[w])
    /\ send_queue' = Put(send_queue, cur[w], <<StatusMsg(res.secs)>>)
    /\ sent' = Put(sent, cur[w], <<StatusMsg(res.secs)>>)
    /\ wpc' = [wpc EXCEPT ![w] = "sleep"]
    /\ UNCHANGED <<task_queue, item, cur, num, cache, jobst>>
    /\ UNCHANGED histVars
    /\ UNCHANGED handlerVars

(* mutant: after the sleep wait_for_slot asks for the status again *)
WakeRechecks(w) ==
    /\ wpc[w] = "sleep"
    /\ jstat[cur[w]] <= MaxChunks + 1
    /\ wpc' = [wpc EXCEPT ![w] = "get_status"]
    /\ jstat' = Inc(jstat, cur[w])
    /\ UNCHANGED <<task_queue, item, send_queue, sent, cur, num, cache, jobst>>
    /\ UNCHANGED <<fetches, jfetch, mails, cache0, cache1, order>>
    /\ UNCHANGED handlerVars

(* sleep(secs) is over: wait_for_slot returns True *)
Wake(w) ==
    /\ wpc[w] = "sleep"
    /\ RunQuery(w)
    /\ UNCHANGED <<task_queue, item, cur, num, cache, jobst>>
    /\ UNCHANGED <<jstat, mails, cache0, cache1, order>>
    /\ UNCHANGED handlerVars

(* mutant: the fetched content is reported but not written to the file *)
QueryCompleteNoWrite(w) ==
    /\ wpc[w] = "run_query"
    /\ send_queue' = Put(send_queue, cur[w], <<ChunkMsg("chunk", num[w], cur[w])>>)
    /\ sent' = Put(sent, cur[w], <<ChunkMsg("chunk", num[w], cur[w])>>)
    /\ num' = [num EXCEPT ![w] = @ + 1]
    /\ wpc' = [wpc EXCEPT ![w] = "loop"]
    /\ UNCHANGED <<task_queue, item, cur, cache, jobst>>
    /\ UNCHANGED <<handlerVars, histVars>>

(* run_query returned: the content is written to the file, then            *)
(* to_client(send_queue, 'chunk', msg)                                      *)
QueryComplete(w) ==
    /\ wpc[w] = "run_query"
    /\ CanPut(cur[w])
    /\ cache' = cache \cup {Filename(w)}
    /\ send_queue' = Put(send_queue, cur[w], <<ChunkMsg("chunk", num[w], cur[w])>>)
    /\ sent' = Put(sent, cur[w], <<ChunkMsg("chunk", num[w], cur[w])>>)
    /\ num' = [num EXCEPT ![w] = @ + 1]
    /\ wpc' = [wpc EXCEPT ![w] = "loop"]
    /\ UNCHANGED <<task_queue, item, cur, jobst>>
    /\ UNCHANGED <<handlerVars, histVars>>

(* run_query, open or write raised: nothing catches it, the exception      *)
(* leaves process_queue and process_queue_loop and the worker greenlet     *)
(* ends; the file exists already if it was the write that failed            *)
QueryFails(w, created) ==
    /\ wpc[w] = "run_query"
    /\ cache' = IF created THEN cache \cup {Filename(w)} ELSE cache
    /\ wpc' = [wpc EXCEPT ![w] = "dead"]
    /\ jobst' = [jobst EXCEPT ![cur[w]] = "aborted"]
    /\ cache1' = [cache1 EXCEPT ![cur[w]] = cache']
    /\ UNCHANGED <<task_queue, item, send_queue, sent, cur, num>>
    /\ UNCHANGED <<fetches, jstat, jfetch, mails, cache0, order>>
    /\ UNCHANGED handlerVars

(* the chunks are exhausted: send_queue.put(None) *)
ItemComplete(w) ==
    /\ wpc[w] = "loop"
    /\ num[w] > Len(Chunks(cur[w]))
    /\ CanPut(cur[w])
    /\ send_queue' = Put(send_queue, cur[w], <<None>>)
    /\ sent' = Put(sent, cur[w], <<None>>)
    /\ EndJob(w, "completed")
    /\ UNCHANGED <<task_queue, item, cur, num, cache>>
    /\ UNCHANGED <<fetches, jstat, jfetch, mails, cache0, order>>
    /\ UNCHANGED handlerVars

(* ------------------------------- Next ---------------------------------- *)
(* the handlers of the connections in C, whose place requests are from F *)
HandlerNext(C, F) ==
    \E c \in C :
        \/ HandleInvalid(c)
        \/ HandlePing(c)
        \/ \E msg \in F : NewPlaceRequest(c, msg)
        \/ ClientAck(c)
        \/ ClientBadAck(c)
        \/ Relay(c)
        \/ RelayBrokenPipe(c)

WorkerNext(w) ==
    \/ Dequeue(w)
    \/ SkipChunk(w)
    \/ ReportCached(w)
    \/ GetStatus(w)
    \/ \E res \in StatusResults :
          \/ StatusFails(w, res)
          \/ StatusFree(w, res)
          \/ StatusWait(w, res)
    \/ Wake(w)
    \/ QueryComplete(w)
    \/ \E created \in BOOLEAN : QueryFails(w, created)
    \/ ItemComplete(w)

Next == HandlerNext(Sessions, Frames) \/ \E w \in Workers : WorkerNext(w)

Spec == Init /\ [][Next]_vars

(* The queue under load: every connection of the model sends a place       *)
(* request, and the requests carry no chunks, so that of process_queue     *)
(* only the get and the final put are ever enabled.                        *)
QueueNext ==
    \/ \E c \in Conn :
          \/ \E msg \in BareFrames : NewPlaceRequest(c, msg)
          \/ ClientAck(c)
          \/ ClientBadAck(c)
          \/ Relay(c)
          \/ RelayBrokenPipe(c)
    \/ \E w \in Workers : Dequeue(w) \/ ItemComplete(w)

SpecQueue == Init /\ [][QueueNext]_vars

(* One job alone: the first connection only, with any frame, over the      *)
(* larger set of filenames.                                                 *)
JobNext == HandlerNext({1}, JobFrames) \/ \E w \in Workers : WorkerNext(w)

SpecJob == InitState(JobFiles) /\ [][JobNext]_vars

(* ============================ properties ============================== *)
Last(q)  == q[Len(q)]
IsPlace(c) == item[c].type = "place"
(* the area job c was enqueued with *)
Priority(c) == ParseArea(item[c].area).area
Ended(c) == jobst[c] \in {"completed", "failed", "aborted"}

(* the messages of type t in q, in order *)
OfType(q, t) == LET Test(m) == m.type = t IN SelectSeq(q, Test)
Nums(q)      == [i \in DOMAIN q |-> q[i].num]

(* the numbers 0..N-1 of all chunks, and of the chunks that have a query *)
AllNums(chunks) == [i \in 1..Len(chunks) |-> i - 1]
OqlNums(chunks) == LET Test(n) == chunks[n + 1].oql IN SelectSeq(AllNums(chunks), Test)

(* the client of c has been sent 'done' *)
GotDone(c) == sock[c] # <<>> /\ Last(sock[c]).type = "done"

C2_OneTerminalEvent ==
    \A c \in Conn : Ended(c) =>
        /\ sent[c] # <<>>
        /\ Last(sent[c]).type \in {"None", "error"}
        /\ Len(OfType(sent[c], "None")) + Len(OfType(sent[c], "error")) = 1

(* ------------------------------- C3 ------------------------------------ *)
(* C3: whenever the worker dequeues a job, no job waiting in the queue at   *)
(* that moment has a strictly smaller area.                                 *)
C3_SmallestFirst ==
    [][order' # order =>
          \A i \in 1..Len(task_queue) :
              Priority(Last(order')) <= task_queue[i].area]_vars

(* a job was dequeued while a job with a larger area, enqueued before it,   *)
(* is still waiting                                                         *)
C3_Witness ==
    /\ order # <<>>
    /\ \E i \in 1..Len(task_queue) :
          /\ task_queue[i].id < Last(order)
          /\ task_queue[i].area > Priority(Last(order))

(* ------------------------------- C4 ------------------------------------ *)
(* C4: every place request is accepted into the queue (its handler goes on  *)
(* to send 'connected'), no comparison of two queued jobs fails, and jobs   *)
(* of equal area are dequeued in the order they were enqueued.              *)
C4_TiesInInsertionOrder ==
    /\ \A c \in Conn : IsPlace(c) => sock[c] # <<>>
    /\ \A c \in Conn : jobst[c] # "lost"
    /\ \A i, j \in 1..Len(order) :
          i < j /\ Priority(order[i]) = Priority(order[j])
              => order[i] < order[j]

(* ------------------------------- C5 ------------------------------------ *)
(* C5: no fetch is made for a filename that is in the cache: once a file    *)
(* is written, the number of fetches made for it never grows again.         *)
C5_NeverRefetched ==
    [][\A f \in Files : f \in cache => fetches'[f] = fetches[f]]_vars

(* a job that names one filename in two chunks has fetched it once and      *)
(* reported it twice                                                        *)
C5_Witness ==
    \E c \in Conn :
        /\ IsPlace(c) /\ jobst[c] = "completed"
        /\ Len(OfType(sent[c], "chunk")) = 2
        /\ jfetch[c] = 1
        /\ \E d \in Conn : d # c /\ IsPlace(d) /\ jobst[d] = "completed"
              /\ jfetch[d] = 0 /\ Len(OfType(sent[d], "chunk")) > 0

(* ------------------------------- C6 ------------------------------------ *)
(* C6: at most one job is running at any time, it is the job of the one     *)
(* worker, and every job dequeued before the last one has ended.            *)
Busy(w) == wpc[w] \in {"loop", "get_status", "sleep", "run_query"}

C6_OneJobAtATime ==
    /\ Cardinality({c \in Conn : jobst[c] = "running"}) <= 1
    /\ Cardinality({w \in Workers : Busy(w)}) <= 1
    /\ \A w \in Workers : Busy(w) => jobst[cur[w]] = "running" /\ cur[w] = Last(order)
    /\ \A i \in 1..Len(order) : i < Len(order) => Ended(order[i])

(* a second job is running after a first one has ended *)
C6_Witness ==
    /\ Len(order) = 2
    /\ jobst[order[2]] = "running"
    /\ jstat[order[1]] > 0 /\ jstat[order[2]] > 0

(* ------------------------------- C7 ------------------------------------ *)
(* C7: when the fetch or the write of a chunk fails unexpectedly, the job   *)
(* gets an error message on its channel and the worker stays alive.         *)
C7_FetchFailureIsolated ==
    \A c \in Conn : jobst[c] = "aborted" =>
        /\ OfType(sent[c], "error") # <<>>
        /\ \A w \in Workers : wpc[w] # "dead"

(* ------------------------------- C8 ------------------------------------ *)
(* C8: after a failed status check the handler is not left waiting on the   *)
(* channel: once it has relayed the error and the job is over, the channel  *)
(* still holds what lets it leave the relay loop.                           *)
C8_HandlerLeavesRelay ==
    \A c \in Conn :
        jobst[c] = "failed" /\ hpc[c] = "get" /\ error[c] => send_queue[c] # <<>>

(* ------------------------------- C9 ------------------------------------ *)
(* C9: whatever the clients have done, the worker never waits for them: at *)
(* every point of a job the step that the code takes next is enabled (the  *)
(* next chunk or the final put, the continuation for every answer of the   *)
(* status check, the wake-up, the write and report after the fetch), and a *)
(* worker waiting at a non-empty queue can take from it.                   *)
C9_WorkerNeverBlocked ==
    \A w \in Workers :
        /\ wpc[w] = "loop" =>
              ENABLED (SkipChunk(w) \/ ReportCached(w) \/ GetStatus(w) \/ ItemComplete(w))
        /\ wpc[w] = "get_status" =>
              \A res \in StatusResults :
                  ENABLED (StatusFails(w, res) \/ StatusFree(w, res) \/ StatusWait(w, res))
        /\ wpc[w] = "sleep" => ENABLED Wake(w)
        /\ wpc[w] = "run_query" => ENABLED QueryComplete(w)
        /\ wpc[w] = "get" /\ task_queue # <<>> => ENABLED Dequeue(w)

(* the handler of a job ended on a bad ack, the worker has still fetched    *)
(* and reported the job's chunk, nobody reads the channel, and a later job  *)
(* was dequeued                                                             *)
C9_Witness ==
    \E c \in Conn :
        /\ hpc[c] = "crashed" /\ sock[c] # <<>>
        /\ jobst[c] = "completed" /\ jfetch[c] > 0
        /\ Len(send_queue[c]) >= 3
        /\ order # <<>> /\ Last(order) # c

(* ------------------------------- C10 ----------------------------------- *)
(* all files named by job c existed when it was dequeued *)
AllExisted(c) == \A i \in 1..Len(Chunks(c)) : Chunks(c)[i].filename \in cache0[c]

BadReply(c) == recv[c] # <<>> /\ Last(recv[c]) # "ack"

(* C11: once the handler has read a reply other than 'ack', it has ended    *)
(* and nothing was written on that connection after the message the reply   *)
(* answered; and the step that reads such a reply changes neither the task  *)
(* queue, nor the worker, nor any job's channel, nor the cache, nor any     *)
(* other connection.                                                        *)
C11_AckViolationConfined ==
    /\ [](\A c \in Conn : BadReply(c) =>
              hpc[c] = "crashed" /\ Len(sock[c]) = Len(recv[c]))
    /\ [][\A c \in Conn : recv'[c] # recv[c] /\ Last(recv'[c]) # "ack" =>
              /\ UNCHANGED <<task_queue, send_queue, sent, workerVars, cache, jobst>>
              /\ \A d \in Conn \ {c} :
                    hpc'[d] = hpc[d] /\ sock'[d] = sock[d] /\ recv'[d] = recv[d]]_vars

(* a handler ended on a bad reply with messages of its job still unsent,    *)
(* and the client of another connection got its 'done' afterwards           *)
C11_Witness ==
    \E c \in Conn :
        /\ BadReply(c) /\ send_queue[c] # <<>> /\ Len(sock[c]) >= 2
        /\ \E d \in Conn \ {c} : GotDone(d) /\ hpc[d] = "closed" /\ jfetch[d] > 0

(* ------------------------------- C12 ----------------------------------- *)
(* the files job c called run_query for *)
FetchedFiles(c) ==
    {sent[c][i].filename : i \in {j \in 1..Len(sent[c]) : sent[c][j].type = "run_query"}}

(* C12 as claimed: when a status check of a job has failed, the cache after *)
(* the job is the cache before it.                                          *)
C12_NoFileCreated ==
    \A c \in Conn : jobst[c] = "failed" => cache1[c] = cache0[c]

(* C12 amended: when a status check of a job has failed, no file is created *)
(* from that check on: the cache after the job is the cache before it plus  *)
(* the files of the chunks the job fetched before the failing check (the    *)
(* same cache if the failure is at the job's first fetch), and the file of  *)
(* the chunk at which the check failed does not exist.                      *)
C12_NoFileAfterFailure ==
    \A c \in Conn : jobst[c] = "failed" =>
        /\ cache1[c] = cache0[c] \cup FetchedFiles(c)
        /\ jfetch[c] = 0 => cache1[c] = cache0[c]
        /\ \A w \in Workers : cur[w] = c => Filename(w) \notin cache1[c]

(* the status check failed at the second chunk of a job that had fetched    *)
(* its first chunk                                                          *)
C12_Witness ==
    \E c \in Conn :
        /\ jobst[c] = "failed" /\ jfetch[c] = 1
        /\ cache1[c] # cache0[c]

(* ------------------------------- C13 ----------------------------------- *)
(* C13: a connection whose first frame is not decodable has been written    *)
(* exactly one error frame, no reply was read from it, it is closed and it  *)
(* has no job; and the step that handles the frame leaves the task queue    *)
(* and every channel as they were.                                          *)
C13_InvalidFrame ==
    /\ [](\A c \in Conn : item[c].type = "invalid" =>
              /\ sock[c] = <<ErrorMsg("invalid JSON")>>
              /\ recv[c] = <<>>
              /\ hpc[c] = "closed"
              /\ jobst[c] = "none")
    /\ [][\A c \in Conn : item[c].type = "none" /\ item'[c].type = "invalid" =>
              UNCHANGED <<task_queue, send_queue, sent, order>>]_vars

(* an undecodable frame was handled while a job was waiting in the queue *)
C13_Witness ==
    \E c \in Conn : item[c].type = "invalid" /\ task_queue # <<>>

(* ------------------------------- C14 ----------------------------------- *)
(* C14: a connection whose first frame is a ping has been written exactly   *)
(* one pong, no reply was read from it, it is closed and it has no job; and *)
(* the step that handles the ping leaves the task queue and every job's     *)
(* channel as they were.                                                    *)
C14_Ping ==
    /\ [](\A c \in Conn : item[c].type = "ping" =>
              /\ sock[c] = <<TypeMsg("pong")>>
              /\ recv[c] = <<>>
              /\ hpc[c] = "closed"
              /\ jobst[c] = "none")
    /\ [][\A c \in Conn : item[c].type = "none" /\ item'[c].type = "ping" =>
              UNCHANGED <<task_queue, send_queue, sent, order>>]_vars

(* a ping was answered while a job was waiting in the queue and another     *)
(* job's channel held messages                                              *)
C14_Witness ==
    \E c \in Conn : item[c].type = "ping" /\ task_queue # <<>>

(* ------------------------------- C15 ----------------------------------- *)
(* C15: the worker starts a fetch only directly after a status check (one   *)
(* that reported no wait), never directly out of a sleep.                   *)
C15_FetchAfterFreeCheck ==
    [][\A w \in Workers : wpc[w] # "run_query" /\ wpc'[w] = "run_query" =>
           wpc[w] = "get_status"]_vars

(* C15 amended: there is exactly one status check per fetch and none after *)
(* a sleep: a job has made as many checks as fetches, plus the one check    *)
(* that is under way, being slept on, or that failed; and every status      *)
(* message on its channel is directly followed by the run_query message of  *)
(* the fetch, or is the last message while the worker sleeps.               *)
C15_OneCheckPerFetch ==
    \A c \in Conn :
        /\ jstat[c] = jfetch[c] +
               (IF \/ jobst[c] = "failed"
                   \/ \E w \in Workers : cur[w] = c /\ wpc[w] \in {"get_status", "sleep"}
                THEN 1 ELSE 0)
        /\ \A i \in 1..Len(sent[c]) : sent[c][i].type = "status" =>
               IF i < Len(sent[c])
                   THEN sent[c][i + 1].type = "run_query"
                   ELSE \E w \in Workers : cur[w] = c /\ wpc[w] = "sleep"

(* a completed job that was told to wait before each of its two fetches *)
C15_Witness ==
    \E c \in Conn :
        /\ jobst[c] = "completed" /\ jfetch[c] = 2
        /\ Len(OfType(sent[c], "status")) = 2

(* ------------------------------- C16 ----------------------------------- *)
(* the 0-based positions of the chunks of job c that have no oql *)
NoOqlNums(c) == {n \in 0..(Len(Chunks(c)) - 1) : ~Chunks(c)[n + 1].oql}

(* the messages on job c's channel that carry num n *)
WithNum(c, n) ==
    {i \in 1..Len(sent[c]) : sent[c][i].type \in {"run_query", "chunk"} /\ sent[c][i].num = n}

C17_DoneNotAcked ==
    \A c \in Conn : GotDone(c) =>
        hpc[c] = "closed" /\ Len(recv[c]) = Len(sock[c]) - 1

(* C17 amended: 'done' is sent like every relayed message: after writing it *)
(* the handler waits for the client's reply, closes the connection only     *)
(* once it has read 'ack', and ends on any other reply.                     *)
C17_DoneAwaitsAck ==
    \A c \in Conn : GotDone(c) =>
        \/ hpc[c] = "ack_done" /\ Len(recv[c]) = Len(sock[c]) - 1
        \/ /\ Len(recv[c]) = Len(sock[c])
           /\ hpc[c] = (IF Last(recv[c]) = "ack" THEN "closed" ELSE "crashed")

(* one handler waits for the reply to its 'done' while another has ended on *)
(* a reply to 'done' that was not 'ack'                                     *)
C17_Witness ==
    \E c, d \in Conn :
        /\ GotDone(c) /\ hpc[c] = "ack_done"
        /\ GotDone(d) /\ hpc[d] = "crashed"

(* ------------------------------- C18 ----------------------------------- *)
(* C18: a job has had one mail sent for it exactly if a status check of it  *)
(* failed, and never more than one; and when a status check of a job has    *)
(* failed: exactly one error message is on its channel and no run_query or  *)
(* chunk message after it, no fetch was started after the failing check,    *)
(* the cache was left as the fetches before the check made it, and the      *)
(* worker is back at task_queue.get(), which it can take as soon as a job   *)
(* is waiting.                                                              *)
C18_FailedCheckWorkerSide ==
    \A c \in Conn :
        /\ mails[c] = (IF jobst[c] = "failed" THEN 1 ELSE 0)
        /\ jobst[c] = "failed" =>
              /\ Len(OfType(sent[c], "error")) = 1
              /\ \A i, j \in 1..Len(sent[c]) :
                    sent[c][i].type = "error" /\ j > i =>
                        sent[c][j].type \notin {"run_query", "chunk"}
              /\ jfetch[c] = Len(OfType(sent[c], "run_query"))
              /\ jstat[c] = jfetch[c] + 1
              /\ cache1[c] = cache0[c] \cup FetchedFiles(c)
              /\ \A w \in Workers : cur[w] = c =>
                    /\ wpc[w] = "get"
                    /\ task_queue # <<>> => ENABLED Dequeue(w)

(* a job's status check failed and the worker then took the next job and    *)
(* fetched for it                                                           *)
C18_Witness ==
    \E c, d \in Conn :
        /\ jobst[c] = "failed" /\ mails[c] = 1
        /\ order = <<c, d>> /\ jfetch[d] > 0

(* ------------------------------- C19 ----------------------------------- *)
(* C19: every place request is enqueued and answered with 'connected',      *)
(* whatever its area.                                                       *)
C19_AreaNeverFails ==
    \A c \in Conn : IsPlace(c) =>
        /\ jobst[c] # "none"
        /\ sock[c] # <<>> /\ sock[c][1] = TypeMsg("connected")

(* ------------------------------- C20 ----------------------------------- *)
(* what was relayed to the client of c: its frames between 'connected' and  *)
(* 'done'                                                                   *)
Relayed(c) ==
    SubSeq(sock[c], 2, IF GotDone(c) THEN Len(sock[c]) - 1 ELSE Len(sock[c]))

Written(c, t) == {i \in 1..Len(sock[c]) : sock[c][i].type = t}

(* C21: no connection has been written both an error and a 'done'; once the *)
(* client has acknowledged a relayed error the handler's error flag is set, *)
(* and the handler writes 'done' only with the flag unset.                  *)
C21_NeverErrorAndDone ==
    /\ [](\A c \in Conn :
              /\ Written(c, "error") = {} \/ Written(c, "done") = {}
              /\ IsPlace(c) /\ Written(c, "error") # {} /\ hpc[c] # "new" =>
                    \/ hpc[c] = "ack_msg" /\ Last(sock[c]).type = "error"
                    \/ hpc[c] = "crashed"
                    \/ error[c])
    /\ [][\A c \in Conn : Written(c, "done") = {} /\ GotDone(c)' =>
              ~error[c] /\ Written(c, "error") = {}]_vars

(* a handler has relayed an error, set its flag and waits on the channel,   *)
(* while the handler of another job has sent its 'done'                     *)
C21_Witness ==
    \E c, d \in Conn :
        /\ Written(c, "error") # {} /\ error[c] /\ hpc[c] = "get"
        /\ GotDone(d) /\ Written(d, "error") = {}

(* ------------------------------- C22 ----------------------------------- *)
(* C22: every chunk message on a channel names a file the cache holds, and  *)
(* holds from the step that puts the message on; a run_query message is the *)
(* last on its channel while its fetch runs (or after it failed) and is     *)
(* otherwise directly followed by the chunk message of the same num; and    *)
(* the step that puts a chunk message after the run_query of its num starts *)
(* with the file absent and ends with it written.                           *)
C22_ChunkMeansCached ==
    /\ [](\A c \in Conn : \A i \in 1..Len(sent[c]) :
              /\ sent[c][i].type = "chunk" => sent[c][i].filename \in cache
              /\ sent[c][i].type = "run_query" =>
                    IF i = Len(sent[c])
                        THEN \E w \in Workers :
                                 /\ cur[w] = c /\ wpc[w] \in {"run_query", "dead"}
                                 /\ num[w] = sent[c][i].num + 1
                        ELSE /\ sent[c][i + 1].type = "chunk"
                             /\ sent[c][i + 1].num = sent[c][i].num)
    /\ [][\A c \in Conn :
              Len(sent'[c]) > Len(sent[c]) /\ Last(sent'[c]).type = "chunk" =>
                  /\ Last(sent'[c]).filename \in cache'
                  /\ sent[c] # <<>> /\ Last(sent[c]).type = "run_query" =>
                        /\ Last(sent[c]).num = Last(sent'[c]).num
                        /\ Last(sent[c]).filename \notin cache
                        /\ Last(sent[c]).filename \in cache']_vars

(* one job fetched a chunk and reported it, and a later job reported the    *)
(* same file from the cache without a fetch                                 *)
C22_Witness ==
    \E c, d \in Conn :
        /\ c # d
        /\ OfType(sent[c], "run_query") # <<>> /\ OfType(sent[c], "chunk") # <<>>
        /\ jfetch[d] = 0 /\ OfType(sent[d], "chunk") # <<>>

====
